---- MODULE Spec2Model ----
(***************************************************************************)
(* Maze engine of a_maze_ing: grid and wall operations, DFS carver,        *)
(* loop adder, "42" pattern stamp, BFS solver, output file writer and      *)
(* output validator (Fatemeh/maze_generator.py, forty_two.py,              *)
(* a_maze_ing.py, output_validator.py).                                    *)
(*                                                                         *)
(* A coordinate is <<x, y>>; the grid maps every in-bounds coordinate to   *)
(* its 4-bit wall mask (the source's grid[y][x]).                          *)
(***************************************************************************)
EXTENDS Integers, Sequences, FiniteSets, TLC

VARIABLES
    width, height, entry, exit, perfect, seed,  \* MazeGenerator.__init__ fields
    pc,          \* position in build_and_write / generate / solve; "walls"
                 \* while the wall operations are called on their own
    grid,        \* Maze.grid, <<>> while no Maze exists
    visited,     \* Maze.visited
    stack,       \* _generate_dfs: stack
    forbidden,   \* MazeGenerator._forbidden
    attempt,     \* _add_cycles_safely: number of loop iterations done
    rng,         \* state of the module-level random generator
    queue,       \* _solve_bfs: queue of <<cell, path>>
    seen,        \* _solve_bfs: visited
    path,        \* result of solve()
    text,        \* content of the output file
    parsed,      \* what output_validator.validate read back
    call,        \* the last call made on the MazeGenerator and what it raised
    first,       \* grid and path of the first finished run, <<>> before it
    ui           \* run_ui: what is displayed and the loop's position

vars == <<width, height, entry, exit, perfect, seed, pc, grid, visited,
          stack, forbidden, attempt, rng, queue, seen, path, text, parsed,
          call, first, ui>>

config == <<width, height, entry, exit, perfect, seed>>

\* ---------------------------------------------------------------- bounds
MaxSmall == 3        \* small grids are 0..MaxSmall wide and high
MaxFreeCells == 9    \* unseeded (arbitrary draws) runs: at most this many cells
MaxCoord == 1        \* entry coordinates are drawn from -1..MaxCoord
MaxSeed == 1         \* seeds are drawn from 0..MaxSeed
MaxAttempts == 5     \* attempt budget of the loop adder (300 in generate())
PatExtra == 2        \* SpecPattern: grids up to MIN_WIDTH+PatExtra by MIN_HEIGHT+PatExtra

NoSeed == -1         \* seed=None

\* ------------------------------------------------------------- Direction
Directions == <<"NORTH", "EAST", "SOUTH", "WEST">>

value(d) == CASE d = "NORTH" -> 1 [] d = "EAST" -> 2
              [] d = "SOUTH" -> 4 [] d = "WEST" -> 8

opposite(d) == CASE d = "NORTH" -> "SOUTH" [] d = "SOUTH" -> "NORTH"
                 [] d = "EAST" -> "WEST"   [] d = "WEST" -> "EAST"

delta(d) == CASE d = "NORTH" -> <<0, -1>> [] d = "EAST" -> <<1, 0>>
              [] d = "SOUTH" -> <<0, 1>>  [] d = "WEST" -> <<-1, 0>>

letter(d) == CASE d = "NORTH" -> "N" [] d = "EAST" -> "E"
               [] d = "SOUTH" -> "S" [] d = "WEST" -> "W"

\* ------------------------------------------------------------ bit masks
HasBit(mask, v) == (mask \div v) % 2 = 1
\* faulty variant: the bit is flipped
ClearBit_flip(mask, v) == IF HasBit(mask, v) THEN mask - v ELSE mask + v

\* mask & ~v
ClearBit(mask, v) == IF HasBit(mask, v) THEN mask - v ELSE mask
\* mask | v
SetBit(mask, v) == IF HasBit(mask, v) THEN mask ELSE mask + v

\* ----------------------------------------------------------------- Maze
Cells(w, h) == (0 .. w - 1) \X (0 .. h - 1)

is_in_bounds(w, h, c) == 0 <= c[1] /\ c[1] < w /\ 0 <= c[2] /\ c[2] < h

\* faulty variant: entry and exit are not compared
ConstructFails_same_allowed(w, h, en, ex) ==
    \/ w <= 0
    \/ h <= 0
    \/ ~is_in_bounds(w, h, en)
    \/ ~is_in_bounds(w, h, ex)

\* Maze.__init__ raises ValueError
ConstructFails(w, h, en, ex) ==
    \/ w <= 0
    \/ h <= 0
    \/ ~is_in_bounds(w, h, en)
    \/ ~is_in_bounds(w, h, ex)
    \/ en = ex

\* ------------------------------------------------- the random generator
\* random.seed(s) followed by draws is a fixed sequence; an unseeded
\* generator (seeded from OS entropy at import) can return any value.
RngNext(s) == (75 * s + 74) % 65537

Seeded(s) == [seeded |-> TRUE, s |-> s % 65537]

\* faulty variant: a generator that was seeded before is left as it is
Reseed_once(r, s) == IF s # NoSeed /\ ~r.seeded THEN Seeded(s) ELSE r

\* if seed is not None: random.seed(seed)
Reseed(r, s) == IF s # NoSeed THEN Seeded(s) ELSE r

\* random.randrange(n): the possible <<value, generator afterwards>>
Draws(r, n) ==
    IF r.seeded
    THEN {<<RngNext(r.s) % n, [r EXCEPT !.s = RngNext(r.s)]>>}
    ELSE {<<v, r>> : v \in 0 .. n - 1}

Swap(s, i, j) == [s EXCEPT ![i] = s[j], ![j] = s[i]]

\* random.shuffle(s): for i in reversed(range(1, len(s))): j = randbelow(i+1);
\* s[i], s[j] = s[j], s[i].  i is the 0-based index of the source.
RECURSIVE ShuffleFrom(_, _, _)
ShuffleFrom(r, s, i) ==
    IF i < 1 THEN {<<s, r>>}
    ELSE UNION {ShuffleFrom(d[2], Swap(s, i + 1, d[1] + 1), i - 1) :
                    d \in Draws(r, i + 1)}

Shuffles(r, s) == ShuffleFrom(r, s, Len(s) - 1)

\* ------------------------------------------------------ wall operations
Step(c, d) == <<c[1] + delta(d)[1], c[2] + delta(d)[2]>>

\* faulty variant: the directions are gone through from the last to the first
get_neighbours_backwards(w, h, c) ==
    SelectSeq([i \in 1 .. 4 |-> <<Step(c, Directions[5 - i]), Directions[5 - i]>>],
              LAMBDA n : is_in_bounds(w, h, n[1]))

\* faulty variant: the cells beyond the edge of the grid are not dropped
get_neighbours_unfiltered(w, h, c) ==
    [i \in 1 .. 4 |-> <<Step(c, Directions[i]), Directions[i]>>]

get_neighbours(w, h, c) ==
    SelectSeq([i \in 1 .. 4 |-> <<Step(c, Directions[i]), Directions[i]>>],
              LAMBDA n : is_in_bounds(w, h, n[1]))

\* delta_map.get((dx, dy)): the directions whose delta leads from a to b
DirsBetween(a, b) ==
    {Directions[i] : i \in
        {j \in 1 .. 4 : delta(Directions[j]) = <<b[1] - a[1], b[2] - a[2]>>}}

Adjacent(a, b) == DirsBetween(a, b) # {}

\* faulty variant: only the first cell's side is cleared
remove_wall_one_side(g, a, b) ==
    IF ~Adjacent(a, b) THEN g
    ELSE LET d == CHOOSE dd \in DirsBetween(a, b) : TRUE
         IN  [g EXCEPT ![a] = ClearBit(@, value(d))]

\* the grid is left as it is when ValueError is raised
remove_wall(g, a, b) ==
    IF ~Adjacent(a, b) THEN g
    ELSE LET d == CHOOSE dd \in DirsBetween(a, b) : TRUE
             g1 == [g EXCEPT ![a] = ClearBit(@, value(d))]
         IN  [g1 EXCEPT ![b] = ClearBit(@, value(opposite(d)))]

\* faulty variant: only the first cell's side is set
add_wall_back_one_side(g, a, b) ==
    IF ~Adjacent(a, b) THEN g
    ELSE LET d == CHOOSE dd \in DirsBetween(a, b) : TRUE
         IN  [g EXCEPT ![a] = SetBit(@, value(d))]

add_wall_back(g, a, b) ==
    IF ~Adjacent(a, b) THEN g
    ELSE LET d == CHOOSE dd \in DirsBetween(a, b) : TRUE
             g1 == [g EXCEPT ![a] = SetBit(@, value(d))]
         IN  [g1 EXCEPT ![b] = SetBit(@, value(opposite(d)))]

has_wall(g, c, d) == HasBit(g[c], value(d))

\* ------------------------------------------------ 3x3 open-area detection
has_3x3_open(g, x, y) ==
    \A row \in y .. y + 2 : \A col \in x .. x + 2 :
        /\ (col < x + 2) => ~has_wall(g, <<col, row>>, "EAST")
        /\ (row < y + 2) => ~has_wall(g, <<col, row>>, "SOUTH")

\* faulty variant: only the block whose top-left cell is (x, y) is looked at
creates_3x3_nearby_own_block(g, w, h, x, y) ==
    /\ 0 <= x /\ x <= w - 3
    /\ 0 <= y /\ y <= h - 3
    /\ has_3x3_open(g, x, y)

\* faulty variant: the origins two cells to the left or above are left out
creates_3x3_nearby_short(g, w, h, x, y) ==
    \E dy \in -1 .. 0 : \E dx \in -1 .. 0 :
        /\ 0 <= x + dx /\ x + dx <= w - 3
        /\ 0 <= y + dy /\ y + dy <= h - 3
        /\ has_3x3_open(g, x + dx, y + dy)

creates_3x3_nearby(g, w, h, x, y) ==
    \E dy \in -2 .. 0 : \E dx \in -2 .. 0 :
        /\ 0 <= x + dx /\ x + dx <= w - 3
        /\ 0 <= y + dy /\ y + dy <= h - 3
        /\ has_3x3_open(g, x + dx, y + dy)

\* --------------------------------------------------------- "42" pattern
\* faulty variant: the lower bend of the "2" is drawn around a free cell
PATTERN_42_closed == << <<1, 0, 1, 0, 0, 1, 1, 1>>,
                        <<1, 0, 1, 0, 0, 0, 0, 1>>,
                        <<1, 1, 1, 0, 0, 1, 1, 1>>,
                        <<0, 0, 1, 0, 0, 1, 0, 1>>,
                        <<0, 0, 1, 0, 0, 1, 1, 1>> >>

PATTERN_42 == << <<1, 0, 1, 0, 0, 1, 1, 1>>,
                 <<1, 0, 1, 0, 0, 0, 0, 1>>,
                 <<1, 1, 1, 0, 0, 1, 1, 1>>,
                 <<0, 0, 1, 0, 0, 1, 1, 0>>,
                 <<0, 0, 1, 0, 0, 1, 1, 1>> >>

PATTERN_H == Len(PATTERN_42)
PATTERN_W == Len(PATTERN_42[1])
MIN_WIDTH == PATTERN_W + 2
MIN_HEIGHT == PATTERN_H + 2

\* faulty variant: the border is taken to be two cells on one side
can_fit_42_strict(w, h) == w > MIN_WIDTH /\ h > MIN_HEIGHT

can_fit_42(w, h) == w >= MIN_WIDTH /\ h >= MIN_HEIGHT

get_42_cells(w, h) ==
    IF ~can_fit_42(w, h) THEN {}
    ELSE LET origin_x == (w - PATTERN_W) \div 2
             origin_y == (h - PATTERN_H) \div 2
         IN  {<<origin_x + rc[2], origin_y + rc[1]>> :
                 rc \in
                    {p \in (0 .. PATTERN_H - 1) \X (0 .. PATTERN_W - 1) :
                        PATTERN_42[p[1] + 1][p[2] + 1] = 1}}

\* faulty variant: the cells are collected but their masks are not set
RECURSIVE StampRow_no_write(_, _, _, _, _)
StampRow_no_write(r, origin_x, origin_y, row, col) ==
    IF col >= PATTERN_W THEN r
    ELSE LET c == <<origin_x + col, origin_y + row>>
         IN  IF PATTERN_42[row + 1][col + 1] = 1
             THEN StampRow_no_write([r EXCEPT !.stamped = @ \cup {c}],
                                   origin_x, origin_y, row, col + 1)
             ELSE StampRow_no_write(r, origin_x, origin_y, row, col + 1)

\* the inner loop of embed_42 over the columns of one row, from col on;
\* r is the grid and the stamped set so far
RECURSIVE StampRow(_, _, _, _, _)
StampRow(r, origin_x, origin_y, row, col) ==
    IF col >= PATTERN_W THEN r
    ELSE LET c == <<origin_x + col, origin_y + row>>
         IN  IF PATTERN_42[row + 1][col + 1] = 1
             THEN StampRow([grid |-> [r.grid EXCEPT ![c] = 15],
                            stamped |-> r.stamped \cup {c}],
                           origin_x, origin_y, row, col + 1)
             ELSE StampRow(r, origin_x, origin_y, row, col + 1)

\* the outer loop of embed_42 over the rows, from row on
RECURSIVE StampFrom(_, _, _, _)
StampFrom(r, origin_x, origin_y, row) ==
    IF row >= PATTERN_H THEN r
    ELSE StampFrom(StampRow(r, origin_x, origin_y, row, 0),
                   origin_x, origin_y, row + 1)

\* faulty variant: the origin is not halved
embed_42_corner(g, w, h) ==
    IF ~can_fit_42(w, h) THEN [grid |-> g, stamped |-> {}]
    ELSE StampFrom([grid |-> g, stamped |-> {}],
                   w - PATTERN_W, h - PATTERN_H, 0)

\* faulty variant: the facing walls of the cells next to a stamped cell are
\* closed as well
embed_42_closing_neighbours(g, w, h) ==
    IF ~can_fit_42(w, h) THEN [grid |-> g, stamped |-> {}]
    ELSE LET r == StampFrom([grid |-> g, stamped |-> {}],
                            (w - PATTERN_W) \div 2, (h - PATTERN_H) \div 2, 0)
             Closed(c) ==
                 {value(d) : d \in
                     {dd \in {"NORTH", "EAST", "SOUTH", "WEST"} :
                         Step(c, dd) \in r.stamped}}
         IN  [grid |-> [c \in DOMAIN g |->
                          IF Closed(c) = {} THEN r.grid[c] ELSE 15],
              stamped |-> r.stamped]

embed_42(g, w, h) ==
    IF ~can_fit_42(w, h) THEN [grid |-> g, stamped |-> {}]
    ELSE StampFrom([grid |-> g, stamped |-> {}],
                   (w - PATTERN_W) \div 2, (h - PATTERN_H) \div 2, 0)

\* ----------------------------------------------------------- loop adder
\* the inner for loop of _add_cycles_safely over the shuffled neighbours,
\* faulty variant: a forbidden neighbour is not passed over
RECURSIVE TryOpenFrom_any_neighbour(_, _, _, _, _, _, _, _)
TryOpenFrom_any_neighbour(g, w, h, fb, x, y, nbs, i) ==
    IF i > Len(nbs) THEN g
    ELSE LET n == nbs[i][1]
             d == nbs[i][2]
         IN  IF ~has_wall(g, <<x, y>>, d)
             THEN TryOpenFrom_any_neighbour(g, w, h, fb, x, y, nbs, i + 1)
             ELSE LET g1 == remove_wall(g, <<x, y>>, n)
                  IN  IF creates_3x3_nearby(g1, w, h, x, y)
                      THEN add_wall_back(g1, <<x, y>>, n)
                      ELSE g1

\* faulty variant: after a removal is taken back the next neighbour is tried
RECURSIVE TryOpenFrom_retry(_, _, _, _, _, _, _, _)
TryOpenFrom_retry(g, w, h, fb, x, y, nbs, i) ==
    IF i > Len(nbs) THEN g
    ELSE LET n == nbs[i][1]
             d == nbs[i][2]
         IN  IF n \in fb THEN TryOpenFrom_retry(g, w, h, fb, x, y, nbs, i + 1)
             ELSE IF ~has_wall(g, <<x, y>>, d)
                  THEN TryOpenFrom_retry(g, w, h, fb, x, y, nbs, i + 1)
             ELSE LET g1 == remove_wall(g, <<x, y>>, n)
                  IN  IF creates_3x3_nearby(g1, w, h, x, y)
                      THEN TryOpenFrom_retry(add_wall_back(g1, <<x, y>>, n),
                                             w, h, fb, x, y, nbs, i + 1)
                      ELSE g1

\* from index i on: the first neighbour that is not forbidden and still
\* walled is opened, closed again if a 3x3 area appeared, and the loop ends
RECURSIVE TryOpenFrom(_, _, _, _, _, _, _, _)
TryOpenFrom(g, w, h, fb, x, y, nbs, i) ==
    IF i > Len(nbs) THEN g
    ELSE LET n == nbs[i][1]
             d == nbs[i][2]
         IN  IF n \in fb THEN TryOpenFrom(g, w, h, fb, x, y, nbs, i + 1)
             ELSE IF ~has_wall(g, <<x, y>>, d)
                  THEN TryOpenFrom(g, w, h, fb, x, y, nbs, i + 1)
             ELSE LET g1 == remove_wall(g, <<x, y>>, n)
                  IN  IF creates_3x3_nearby(g1, w, h, x, y)
                      THEN add_wall_back(g1, <<x, y>>, n)
                      ELSE g1

\* ----------------------------------------------------------- BFS solver
\* faulty variant: a new cell is put at the front of the queue
RECURSIVE ExpandFrom_lifo(_, _, _, _, _, _, _, _)
ExpandFrom_lifo(g, fb, current, p, nbs, i, q, s) ==
    IF i > Len(nbs) THEN [queue |-> q, seen |-> s]
    ELSE LET n == nbs[i][1]
             d == nbs[i][2]
         IN  IF n \in s \/ has_wall(g, current, d) \/ n \in fb
             THEN ExpandFrom_lifo(g, fb, current, p, nbs, i + 1, q, s)
             ELSE ExpandFrom_lifo(g, fb, current, p, nbs, i + 1,
                                  <<<<n, Append(p, letter(d))>>>> \o q,
                                  s \cup {n})

\* faulty variant: walls are not looked at
RECURSIVE ExpandFrom_no_walls(_, _, _, _, _, _, _, _)
ExpandFrom_no_walls(g, fb, current, p, nbs, i, q, s) ==
    IF i > Len(nbs) THEN [queue |-> q, seen |-> s]
    ELSE LET n == nbs[i][1]
             d == nbs[i][2]
         IN  IF n \in s \/ n \in fb
             THEN ExpandFrom_no_walls(g, fb, current, p, nbs, i + 1, q, s)
             ELSE ExpandFrom_no_walls(g, fb, current, p, nbs, i + 1,
                                     Append(q, <<n, Append(p, letter(d))>>),
                                     s \cup {n})

\* the for loop of _solve_bfs over the neighbours of current, from index i
RECURSIVE ExpandFrom(_, _, _, _, _, _, _, _)
ExpandFrom(g, fb, current, p, nbs, i, q, s) ==
    IF i > Len(nbs) THEN [queue |-> q, seen |-> s]
    ELSE LET n == nbs[i][1]
             d == nbs[i][2]
         IN  IF n \in s \/ has_wall(g, current, d) \/ n \in fb
             THEN ExpandFrom(g, fb, current, p, nbs, i + 1, q, s)
             ELSE ExpandFrom(g, fb, current, p, nbs, i + 1,
                             Append(q, <<n, Append(p, letter(d))>>),
                             s \cup {n})

\* ------------------------------------------------------ output file
\* a text is a sequence of one-character strings
HexChars == <<"0", "1", "2", "3", "4", "5", "6", "7", "8", "9",
              "a", "b", "c", "d", "e", "f">>

\* format(cell, "x")
FormatHex(cell) == HexChars[cell + 1]

\* str(n) for n >= 0
RECURSIVE FormatInt(_)
FormatInt(n) ==
    IF n < 10 THEN <<HexChars[n + 1]>>
    ELSE FormatInt(n \div 10) \o <<HexChars[(n % 10) + 1]>>

RECURSIVE WriteRows(_, _, _, _)
WriteRows(g, w, h, y) ==
    IF y >= h THEN <<>>
    ELSE [x \in 1 .. w |-> FormatHex(g[<<x - 1, y>>])] \o <<"\n">>
            \o WriteRows(g, w, h, y + 1)

\* the text write_output_file writes
OutputText(g, w, h, en, ex, p) ==
    WriteRows(g, w, h, 0) \o <<"\n">>
        \o FormatInt(en[1]) \o <<",">> \o FormatInt(en[2]) \o <<"\n">>
        \o FormatInt(ex[1]) \o <<",">> \o FormatInt(ex[2]) \o <<"\n">>
        \o p \o <<"\n">>

\* -------------------------------------------------------- output validator
\* nothing was read
NoParse == [ok |-> FALSE, coherent |-> FALSE, grid |-> <<>>,
            entry |-> <<>>, exit |-> <<>>, path |-> <<>>]

IsSpace(c) == c \in {" ", "\n", "\t", "\r"}

\* str.strip()
Strip(s) ==
    LET keep == {i \in 1 .. Len(s) : ~IsSpace(s[i])}
    IN  IF keep = {} THEN <<>>
        ELSE SubSeq(s, CHOOSE i \in keep : \A j \in keep : i <= j,
                       CHOOSE i \in keep : \A j \in keep : j <= i)

\* the pieces of s between the separators of length n that start at the
\* indices in cuts
Pieces(s, cuts, n) ==
    LET Cut(k) == CHOOSE c \in cuts : Cardinality({d \in cuts : d < c}) = k - 1
        count == Cardinality(cuts)
    IN  [k \in 1 .. count + 1 |->
            SubSeq(s, IF k = 1 THEN 1 ELSE Cut(k - 1) + n,
                      IF k = count + 1 THEN Len(s) ELSE Cut(k) - 1)]

\* number of line breaks that directly precede index i
BreaksBefore(s, i) ==
    LET others == {j \in 1 .. i - 1 : s[j] # "\n"}
    IN  IF others = {} THEN i - 1
        ELSE i - 1 - (CHOOSE j \in others : \A k \in others : k <= j)

\* str.split("\n\n"): separators are found from the left and do not overlap
SplitBlank(s) ==
    Pieces(s, {i \in 1 .. Len(s) - 1 :
                  /\ s[i] = "\n"
                  /\ s[i + 1] = "\n"
                  /\ BreaksBefore(s, i) % 2 = 0}, 2)

\* str.splitlines(): a final line break opens no further line
SplitLines(s) ==
    LET all == Pieces(s, {i \in 1 .. Len(s) : s[i] = "\n"}, 1)
    IN  IF all[Len(all)] = <<>> THEN SubSeq(all, 1, Len(all) - 1) ELSE all

\* str.split(",")
SplitComma(s) == Pieces(s, {i \in 1 .. Len(s) : s[i] = ","}, 1)

IsHex(c) == \E i \in 1 .. 16 : HexChars[i] = c

\* int(c, 16) of one lower-case hex digit
ParseHex(c) == (CHOOSE i \in 1 .. 16 : HexChars[i] = c) - 1

IsDec(s) == s # <<>> /\ \A i \in 1 .. Len(s) : \E k \in 1 .. 10 : HexChars[k] = s[i]

\* int(s) of an unsigned decimal
RECURSIVE ParseInt(_)
ParseInt(s) ==
    IF s = <<>> THEN 0
    ELSE 10 * ParseInt(SubSeq(s, 1, Len(s) - 1)) + ParseHex(s[Len(s)])

\* "x,y" read the way the configuration's ENTRY and EXIT are read
ParseCoord(line) ==
    LET f == SplitComma(line)
    IN  IF Len(f) = 2 /\ IsDec(f[1]) /\ IsDec(f[2])
        THEN <<ParseInt(f[1]), ParseInt(f[2])>>
        ELSE <<>>

\* the wall coherence loop of validate() finds no error
Coherent(g, w, h) ==
    \A y \in 0 .. h - 1 : \A x \in 0 .. w - 1 :
        /\ (x + 1 < w) =>
              (HasBit(g[<<x, y>>], 2) <=> HasBit(g[<<x + 1, y>>], 8))
        /\ (y + 1 < h) =>
              (HasBit(g[<<x, y>>], 4) <=> HasBit(g[<<x, y + 1>>], 1))

\* validate(): ok is FALSE where it prints a format error and exits;
\* coherent is FALSE where it reports wall coherence errors
validate(content) ==
    LET parts == SplitBlank(Strip(content))
    IN  IF Len(parts) # 2 THEN NoParse
        ELSE
        LET grid_lines == SplitLines(parts[1])
            meta_lines == SplitLines(parts[2])
            h == Len(grid_lines)
            w == IF h > 0 THEN Len(grid_lines[1]) ELSE 0
        IN  IF Len(meta_lines) < 3 THEN NoParse
            ELSE IF \E r \in 1 .. h : Len(grid_lines[r]) # w THEN NoParse
            ELSE IF \E r \in 1 .. h : \E k \in 1 .. w :
                        ~IsHex(grid_lines[r][k]) THEN NoParse
            ELSE LET g == [c \in Cells(w, h) |->
                              ParseHex(grid_lines[c[2] + 1][c[1] + 1])]
                 IN  [ok |-> TRUE,
                      coherent |-> Coherent(g, w, h),
                      grid |-> g,
                      entry |-> ParseCoord(meta_lines[1]),
                      exit |-> ParseCoord(meta_lines[2]),
                      path |-> meta_lines[3]]

\* ------------------------------------------------------- configurations
\* no call was made yet
NoCall == [op |-> "", raised |-> ""]

\* run_ui was not called
NoUI == [mode |-> "off", grid |-> <<>>, entry |-> <<>>, exit_pos |-> <<>>,
         path_str |-> <<>>, show_path |-> FALSE, wall_color_idx |-> 0,
         regenerated |-> 0, error |-> ""]

\* nothing has run yet: MazeGenerator.__init__ has stored the configuration
Fresh ==
    /\ pc = "new"
    /\ grid = <<>>
    /\ visited = {}
    /\ stack = <<>>
    /\ forbidden = {}
    /\ attempt = 0
    /\ rng = [seeded |-> FALSE, s |-> 0]
    /\ queue = <<>>
    /\ seen = {}
    /\ path = <<>>
    /\ text = <<>>
    /\ parsed = NoParse
    /\ call = NoCall
    /\ first = <<>>
    /\ ui = NoUI

SmallSizes == (0 .. MaxSmall) \X (0 .. MaxSmall)

FitSizes == {<<MIN_WIDTH, MIN_HEIGHT>>}

Coords == (-1 .. MaxCoord) \X (-1 .. MaxCoord)

\* exits: the first corner, the cell diagonally next to it (a pattern cell
\* in the smallest grid the pattern fits in) and the far corner
ExitsFor(w, h) == {<<0, 0>>, <<1, 1>>, <<w - 1, h - 1>>}

SeedsFor(w, h) ==
    (0 .. MaxSeed) \cup (IF w * h <= MaxFreeCells THEN {NoSeed} ELSE {})

\* small grids with every kind of draw, and the smallest grid the pattern
\* fits in with seeded draws
Init ==
    /\ \E sz \in SmallSizes \cup FitSizes : width = sz[1] /\ height = sz[2]
    /\ entry \in Coords
    /\ exit \in ExitsFor(width, height)
    /\ perfect \in BOOLEAN
    /\ seed \in SeedsFor(width, height)
    /\ Fresh

\* ------------------------------------------------------------ generate()
\* Maze(width, height, entry, exit_pos, seed)
Construct ==
    /\ pc = "new"
    /\ rng' = IF width > 0 /\ height > 0 THEN Reseed(rng, seed) ELSE rng
    /\ IF ConstructFails(width, height, entry, exit)
       THEN /\ pc' = "failed"
            /\ call' = [op |-> "generate", raised |-> "ValueError"]
            /\ UNCHANGED <<grid, visited>>
       ELSE /\ pc' = "constructed"
            /\ call' = [op |-> "generate", raised |-> ""]
            /\ grid' = [c \in Cells(width, height) |-> 15]
            /\ visited' = {}
    /\ UNCHANGED <<config, ui, first, stack, forbidden, attempt, queue, seen,
                   path, text, parsed>>

\* self._forbidden = get_42_cells(self.width, self.height)
Predict ==
    /\ pc = "constructed"
    /\ forbidden' = get_42_cells(width, height)
    /\ pc' = "predicted"
    /\ UNCHANGED <<config, ui, call, first, grid, visited, stack, attempt, rng,
                   queue, seen, path, text, parsed>>

\* _generate_dfs up to the while loop
DfsStart ==
    /\ pc = "predicted"
    /\ stack' = <<entry>>
    /\ visited' = visited \cup {entry}
    /\ pc' = "carving"
    /\ UNCHANGED <<config, ui, call, first, grid, forbidden, attempt, rng,
                   queue, seen, path, text, parsed>>

\* faulty variant: the cells of the pattern are offered like any other
Unvisited_through_pattern(w, h, vis, blocked, current) ==
    SelectSeq(get_neighbours(w, h, current),
              LAMBDA n : n[1] \notin vis)

\* faulty variant: cells that were visited before are offered again
Unvisited_again(w, h, vis, blocked, current) ==
    SelectSeq(get_neighbours(w, h, current),
              LAMBDA n : n[1] \notin blocked)

Unvisited(w, h, vis, blocked, current) ==
    SelectSeq(get_neighbours(w, h, current),
              LAMBDA n : n[1] \notin vis /\ n[1] \notin blocked)

\* one iteration of the while loop of _generate_dfs
DfsStep ==
    /\ pc = "carving"
    /\ stack # <<>>
    /\ LET current == stack[Len(stack)]
           unvisited == Unvisited(width, height, visited, forbidden, current)
       IN  IF unvisited # <<>>
           THEN \E dr \in Draws(rng, Len(unvisited)) :
                    LET next_coord == unvisited[dr[1] + 1][1]
                    IN  /\ grid' = remove_wall(grid, current, next_coord)
                        /\ visited' = visited \cup {next_coord}
                        /\ stack' = Append(stack, next_coord)
                        /\ rng' = dr[2]
           ELSE /\ stack' = SubSeq(stack, 1, Len(stack) - 1)
                /\ UNCHANGED <<grid, visited, rng>>
    /\ UNCHANGED <<config, ui, call, first, pc, forbidden, attempt, queue,
                   seen, path, text, parsed>>

\* faulty variant: step 4 is run whatever perfect says
DfsDone_always_loops ==
    /\ pc = "carving"
    /\ stack = <<>>
    /\ pc' = "looping"
    /\ UNCHANGED <<config, ui, call, first, grid, visited, stack, forbidden,
                   attempt, rng, queue, seen, path, text, parsed>>

\* the while loop ends; generate() goes on with step 4 or step 5
DfsDone ==
    /\ pc = "carving"
    /\ stack = <<>>
    /\ pc' = IF perfect THEN "stamping" ELSE "looping"
    /\ UNCHANGED <<config, ui, call, first, grid, visited, stack, forbidden,
                   attempt, rng, queue, seen, path, text, parsed>>

\* one iteration of the outer for loop of _add_cycles_safely
AddCycle ==
    /\ pc = "looping"
    /\ attempt < MaxAttempts
    /\ attempt' = attempt + 1
    /\ \E dx \in Draws(rng, width) : \E dy \in Draws(dx[2], height) :
         LET x == dx[1]
             y == dy[1]
         IN  IF <<x, y>> \in forbidden
             THEN /\ rng' = dy[2]
                  /\ UNCHANGED grid
             ELSE \E sh \in Shuffles(dy[2],
                                     get_neighbours(width, height, <<x, y>>)) :
                      /\ rng' = sh[2]
                      /\ grid' = TryOpenFrom(grid, width, height, forbidden,
                                             x, y, sh[1], 1)
    /\ UNCHANGED <<config, ui, call, first, pc, visited, stack, forbidden,
                   queue, seen, path, text, parsed>>

LoopsDone ==
    /\ pc = "looping"
    /\ attempt = MaxAttempts
    /\ pc' = "stamping"
    /\ UNCHANGED <<config, ui, call, first, grid, visited, stack, forbidden,
                   attempt, rng, queue, seen, path, text, parsed>>

\* self._forbidden = embed_42(self._maze.grid, self.width, self.height)
Stamp ==
    /\ pc = "stamping"
    /\ LET r == embed_42(grid, width, height)
       IN  /\ grid' = r.grid
           /\ forbidden' = r.stamped
    /\ pc' = "generated"
    /\ UNCHANGED <<config, ui, call, first, visited, stack, attempt, rng,
                   queue, seen, path, text, parsed>>

\* ------------------------------------------- calls made between the runs
\* the generator is not inside generate() or solve()
Idle == {"new", "failed", "generated", "solved"}

\* faulty variant: the check for a missing maze is left out
MazeIsNone_unchecked(g) == ""

\* if self._maze is None: raise RuntimeError(...)
MazeIsNone(g) == IF g = <<>> THEN "RuntimeError" ELSE ""

\* the grid property is read
ReadGrid ==
    /\ pc \in Idle
    /\ call' = [op |-> "grid", raised |-> MazeIsNone(grid)]
    /\ UNCHANGED <<config, ui, first, pc, grid, visited, stack, forbidden,
                   attempt, rng, queue, seen, path, text, parsed>>

\* the forbidden_cells property is read
ReadForbidden ==
    /\ pc \in Idle
    /\ call' = [op |-> "forbidden_cells", raised |-> MazeIsNone(grid)]
    /\ UNCHANGED <<config, ui, first, pc, grid, visited, stack, forbidden,
                   attempt, rng, queue, seen, path, text, parsed>>

\* --------------------------------------------------------------- solve()
\* solve() is called while there is no maze
SolveRaises ==
    /\ pc \in {"new", "failed"}
    /\ MazeIsNone(grid) # ""
    /\ call' = [op |-> "solve", raised |-> MazeIsNone(grid)]
    /\ UNCHANGED <<config, ui, first, pc, grid, visited, stack, forbidden,
                   attempt, rng, queue, seen, path, text, parsed>>

SolveStart ==
    /\ pc = "generated"
    /\ call' = [op |-> "solve", raised |-> ""]
    /\ queue' = << <<entry, <<>> >> >>
    /\ seen' = {entry}
    /\ pc' = "solving"
    /\ UNCHANGED <<config, ui, first, grid, visited, stack, forbidden, attempt,
                   rng, path, text, parsed>>

\* one iteration of the while loop of _solve_bfs
BfsStep ==
    /\ pc = "solving"
    /\ queue # <<>>
    /\ LET current == Head(queue)[1]
           p == Head(queue)[2]
       IN  IF current = exit
           THEN /\ path' = p
                /\ pc' = "solved"
                /\ queue' = Tail(queue)
                /\ UNCHANGED seen
           ELSE LET r == ExpandFrom(grid, forbidden, current, p,
                                    get_neighbours(width, height, current),
                                    1, Tail(queue), seen)
                IN  /\ queue' = r.queue
                    /\ seen' = r.seen
                    /\ UNCHANGED <<path, pc>>
    /\ UNCHANGED <<config, ui, call, first, grid, visited, stack, forbidden,
                   attempt, rng, text, parsed>>

\* the queue ran empty: return ""
BfsFail ==
    /\ pc = "solving"
    /\ queue = <<>>
    /\ path' = <<>>
    /\ pc' = "solved"
    /\ UNCHANGED <<config, ui, call, first, grid, visited, stack, forbidden,
                   attempt, rng, queue, seen, text, parsed>>

\* write_output_file(gen.grid, entry, maze_exit, new_path, output_file)
write_output_file ==
    /\ pc = "solved"
    /\ call' = [op |-> "grid", raised |-> ""]
    /\ text' = OutputText(grid, width, height, entry, exit, path)
    /\ pc' = "written"
    /\ UNCHANGED <<config, ui, first, grid, visited, stack, forbidden, attempt,
                   rng, queue, seen, path, parsed>>

\* python3 output_validator.py <output file>
ValidateFile ==
    /\ pc = "written"
    /\ parsed' = validate(text)
    /\ pc' = "validated"
    /\ UNCHANGED <<config, ui, call, first, grid, visited, stack, forbidden,
                   attempt, rng, queue, seen, path, text>>

generate == Construct \/ Predict \/ DfsStart \/ DfsStep \/ DfsDone
              \/ AddCycle \/ LoopsDone \/ Stamp

solve == SolveRaises \/ SolveStart \/ BfsStep \/ BfsFail

Read == ReadGrid \/ ReadForbidden

Output == write_output_file \/ ValidateFile

Next == generate \/ solve \/ Read \/ Output

Spec == Init /\ [][Next]_vars

\* the while loops of _generate_dfs and _solve_bfs run on once they are
\* entered: an iteration that can be made is made
SpecFair ==
    /\ Spec
    /\ WF_vars(DfsStep \/ DfsDone)
    /\ WF_vars(BfsStep \/ BfsFail)

\* ------------------------------------------------- generate() called again
\* the states other code can leave the module-level generator in between
\* two runs: untouched, seeded by another generation, or drawn from without
\* a seed
Between(r) ==
    {r, [seeded |-> FALSE, s |-> 0]} \cup {Seeded(k) : k \in 0 .. MaxSeed + 1}

\* generate() is called a second time on the generator after solve()
\* returned; the first run's grid and path are kept for comparison.  The
\* old Maze stays in place until the constructor has built the new one.
GenerateAgain ==
    /\ pc \in {"solved", "written", "validated"}
    /\ first' = IF first = <<>> THEN [grid |-> grid, path |-> path] ELSE first
    /\ rng' \in Between(rng)
    /\ pc' = "new"
    /\ attempt' = 0
    /\ queue' = <<>>
    /\ seen' = {}
    /\ path' = <<>>
    /\ parsed' = NoParse
    /\ UNCHANGED <<config, ui, call, grid, visited, stack, forbidden, text>>

NextAgain == Next \/ GenerateAgain

\* seeded configurations only
InitAgain ==
    /\ \E sz \in SmallSizes \cup FitSizes : width = sz[1] /\ height = sz[2]
    /\ entry \in Coords
    /\ exit \in ExitsFor(width, height)
    /\ perfect \in BOOLEAN
    /\ seed \in 0 .. MaxSeed
    /\ Fresh

SpecAgain == InitAgain /\ [][NextAgain]_vars

\* ---------------------------------------------------- solve() called again
\* faulty variant: the cells marked by the call before stay marked
SolveAgain_keeps_seen ==
    /\ pc = "solved"
    /\ first' = IF first = <<>> THEN [grid |-> grid, path |-> path] ELSE first
    /\ rng' \in Between(rng)
    /\ call' = [op |-> "solve", raised |-> ""]
    /\ queue' = << <<entry, <<>> >> >>
    /\ seen' = seen \cup {entry}
    /\ pc' = "solving"
    /\ UNCHANGED <<config, ui, grid, visited, stack, forbidden, attempt, path,
                   text, parsed>>

\* solve() is called once more on the generator after it returned; the
\* grid and the path of the first call are kept for comparison, and other
\* code may have used the module-level generator in between
SolveAgain ==
    /\ pc = "solved"
    /\ first' = IF first = <<>> THEN [grid |-> grid, path |-> path] ELSE first
    /\ rng' \in Between(rng)
    /\ call' = [op |-> "solve", raised |-> ""]
    /\ queue' = << <<entry, <<>> >> >>
    /\ seen' = {entry}
    /\ pc' = "solving"
    /\ UNCHANGED <<config, ui, grid, visited, stack, forbidden, attempt, path,
                   text, parsed>>

NextSolveAgain == Next \/ SolveAgain

SpecSolveAgain == Init /\ [][NextSolveAgain]_vars

\* ----------------------------------------- the pattern over many sizes
\* every size up to a little beyond the pattern's minimum, one seed
InitPattern ==
    /\ width \in 0 .. MIN_WIDTH + PatExtra
    /\ height \in 0 .. MIN_HEIGHT + PatExtra
    /\ entry = <<0, 0>>
    /\ exit \in ExitsFor(width, height)
    /\ perfect \in BOOLEAN
    /\ seed = 0
    /\ Fresh

SpecPattern == InitPattern /\ [][Next]_vars

\* ------------------------------- write_output_file on arbitrary arguments
SerialSizes == {<<1, 1>>, <<2, 1>>, <<1, 2>>}

SerialCoords == {<<0, 0>>, <<1, 0>>, <<10, 12>>}

SerialPaths == {<<>>, <<"N">>, <<"E", "S">>, <<"S", "W", "W", "N">>}

InitSerial ==
    /\ \E sz \in SerialSizes : width = sz[1] /\ height = sz[2]
    /\ entry \in SerialCoords
    /\ exit \in SerialCoords \ {entry}
    /\ perfect = TRUE
    /\ seed = NoSeed
    /\ pc = "solved"
    /\ grid \in [Cells(width, height) -> 0 .. 15]
    /\ visited = {}
    /\ stack = <<>>
    /\ forbidden = {}
    /\ attempt = 0
    /\ rng = [seeded |-> FALSE, s |-> 0]
    /\ queue = <<>>
    /\ seen = {}
    /\ path \in SerialPaths
    /\ text = <<>>
    /\ parsed = NoParse
    /\ call = NoCall
    /\ first = <<>>
    /\ ui = NoUI

SpecSerial == InitSerial /\ [][Output]_vars

\* ------------------------------- the wall operations called on their own
\* remove_wall and add_wall_back are tried on grids of at most this many cells
MaxWallCells == 4

WallSizes == {<<3, 1>>, <<2, 2>>, <<3, 3>>}

\* the masks the cells of a grid start with: mixed ones in a single row,
\* all or nothing in the other grids the walls are changed in, all walls in
\* the larger ones
WallMasks(w, h) ==
    IF h = 1 THEN {0, 6, 9, 15}
    ELSE IF w * h <= MaxWallCells THEN {0, 15}
    ELSE {15}

\* a Maze with any wall masks, outside generate()
InitWalls ==
    /\ \E sz \in WallSizes : width = sz[1] /\ height = sz[2]
    /\ entry = <<0, 0>>
    /\ exit = <<width - 1, height - 1>>
    /\ perfect = TRUE
    /\ seed = NoSeed
    /\ pc = "walls"
    /\ grid \in [Cells(width, height) -> WallMasks(width, height)]
    /\ visited = {}
    /\ stack = <<>>
    /\ forbidden = {}
    /\ attempt = 0
    /\ rng = [seeded |-> FALSE, s |-> 0]
    /\ queue = <<>>
    /\ seen = {}
    /\ path = <<>>
    /\ text = <<>>
    /\ parsed = NoParse
    /\ call = NoCall
    /\ first = <<>>
    /\ ui = NoUI

\* _remove_wall(maze, a, b); the grid before the call is kept in call
RemoveWallCall ==
    /\ pc = "walls"
    /\ width * height <= MaxWallCells
    /\ \E a \in Cells(width, height) : \E b \in Cells(width, height) :
          /\ grid' = remove_wall(grid, a, b)
          /\ call' = [op |-> "remove_wall", a |-> a, b |-> b, before |-> grid,
                      raised |-> IF Adjacent(a, b) THEN "" ELSE "ValueError"]
    /\ UNCHANGED <<config, ui, first, pc, visited, stack, forbidden, attempt,
                   rng, queue, seen, path, text, parsed>>

\* _add_wall_back(maze, a, b)
AddWallBackCall ==
    /\ pc = "walls"
    /\ width * height <= MaxWallCells
    /\ \E a \in Cells(width, height) : \E b \in Cells(width, height) :
          /\ grid' = add_wall_back(grid, a, b)
          /\ call' = [op |-> "add_wall_back", a |-> a, b |-> b,
                      before |-> grid,
                      raised |-> IF Adjacent(a, b) THEN "" ELSE "ValueError"]
    /\ UNCHANGED <<config, ui, first, pc, visited, stack, forbidden, attempt,
                   rng, queue, seen, path, text, parsed>>

\* _get_neighbours(maze, c); what it returned is kept in call
GetNeighboursCall ==
    /\ pc = "walls"
    /\ \E c \in Cells(width, height) :
          call' = [op |-> "get_neighbours", a |-> c, before |-> grid,
                   raised |-> "",
                   returned |-> get_neighbours(width, height, c)]
    /\ UNCHANGED <<config, ui, first, pc, grid, visited, stack, forbidden,
                   attempt, rng, queue, seen, path, text, parsed>>

WallCalls == RemoveWallCall \/ AddWallBackCall \/ GetNeighboursCall

\* generate() on the smallest grid that holds a 3x3 block
InitLoops ==
    /\ width = 3
    /\ height = 3
    /\ entry = <<0, 0>>
    /\ exit = <<2, 2>>
    /\ perfect \in BOOLEAN
    /\ seed \in SeedsFor(3, 3)
    /\ Fresh

NextWalls == generate \/ WallCalls

\* the wall operations on their own and, beside them, inside generate()
SpecWalls == (InitLoops \/ InitWalls) /\ [][NextWalls]_vars

\* ====================================================================
\* Properties
\* ====================================================================
DirSet == {"NORTH", "EAST", "SOUTH", "WEST"}

HasMaze == pc \notin {"new", "failed"}

Generated == pc \in {"generated", "solving", "solved", "written", "validated"}

\* the wall on side d of a is present exactly when the facing wall of the
\* cell beyond it is
Mirrored(g, w, h) ==
    \A a \in Cells(w, h) : \A d \in DirSet :
        is_in_bounds(w, h, Step(a, d)) =>
            (has_wall(g, a, d) <=> has_wall(g, Step(a, d), opposite(d)))

\* C1: after every stage of generate() every two 4-adjacent cells agree on
\* the wall they share.
C1_Mirroring == HasMaze => Mirrored(grid, width, height)

\* the internal walls of the 3x3 block with top-left cell <<x, y>> that are
\* still present: east walls of its two left columns, south walls of its two
\* upper rows
InternalWalls(g, x, y) ==
    {<<c, "EAST">> : c \in {cc \in (x .. x + 1) \X (y .. y + 2) :
                              has_wall(g, cc, "EAST")}}
    \cup
    {<<c, "SOUTH">> : c \in {cc \in (x .. x + 2) \X (y .. y + 1) :
                               has_wall(g, cc, "SOUTH")}}

Blocks(w, h) == (0 .. w - 3) \X (0 .. h - 3)

\* C2: with perfect=false, after generate() every 3x3 block keeps at least
\* one of its 12 internal walls.
C2_NoOpen3x3 ==
    (~perfect /\ Generated) =>
        \A b \in Blocks(width, height) : InternalWalls(grid, b[1], b[2]) # {}

\* a block was opened as far as the loop adder lets it
C2_Witness ==
    /\ ~perfect
    /\ pc = "generated"
    /\ attempt = MaxAttempts
    /\ \E b \in Blocks(width, height) :
          Cardinality(InternalWalls(grid, b[1], b[2])) = 1

\* pairs of 4-adjacent cells whose shared wall is absent on both sides
OpenEdges(g, w, h) ==
    {{a, Step(a, d)} : <<a, d>> \in
        {ad \in Cells(w, h) \X {"EAST", "SOUTH"} :
            /\ is_in_bounds(w, h, Step(ad[1], ad[2]))
            /\ ~has_wall(g, ad[1], ad[2])
            /\ ~has_wall(g, Step(ad[1], ad[2]), opposite(ad[2]))}}

\* the cells joined to the cells of frontier by edges
RECURSIVE Component(_, _, _)
Component(edges, frontier, done) ==
    IF frontier = {} THEN done
    ELSE LET all == done \cup frontier
             nxt == UNION {e \in edges : e \cap frontier # {}}
         IN  Component(edges, nxt \ all, all)

\* no cycle: taking away cells with at most one edge, again and again,
\* takes every edge away
RECURSIVE Acyclic(_)
Acyclic(edges) ==
    IF edges = {} THEN TRUE
    ELSE LET ends == UNION edges
             leaves == {v \in ends :
                          Cardinality({e \in edges : v \in e}) = 1}
         IN  IF leaves = {} THEN FALSE
             ELSE Acyclic({e \in edges : e \cap leaves = {}})

\* C3: with perfect=true and no pattern, after generate() every cell was
\* visited and the open walls are a spanning tree of the grid, with
\* width*height - 1 removed wall pairs.
C3_PerfectTree ==
    (perfect /\ pc = "generated" /\ forbidden = {}) =>
        LET edges == OpenEdges(grid, width, height)
        IN  /\ visited = Cells(width, height)
            /\ Component(edges, {entry}, {}) = Cells(width, height)
            /\ Acyclic(edges)
            /\ Cardinality(edges) = width * height - 1

C3_Witness ==
    /\ perfect
    /\ pc = "generated"
    /\ forbidden = {}
    /\ width = 3
    /\ height = 3
    /\ ~rng.seeded

DirOfLetter(l) == CHOOSE d \in DirSet : letter(d) = l

\* every step of p from c stays in the grid and leaves its cell through a
\* side without wall
RECURSIVE WalkOK(_, _, _, _, _)
WalkOK(g, w, h, c, p) ==
    IF p = <<>> THEN TRUE
    ELSE LET d == DirOfLetter(Head(p))
         IN  /\ is_in_bounds(w, h, Step(c, d))
             /\ ~has_wall(g, c, d)
             /\ WalkOK(g, w, h, Step(c, d), Tail(p))

\* where p leads from c
RECURSIVE WalkEnd(_, _)
WalkEnd(c, p) ==
    IF p = <<>> THEN c ELSE WalkEnd(Step(c, DirOfLetter(Head(p))), Tail(p))

\* the cells entered by walking p from c
RECURSIVE WalkCells(_, _)
WalkCells(c, p) ==
    IF p = <<>> THEN {}
    ELSE LET n == Step(c, DirOfLetter(Head(p)))
         IN  {n} \cup WalkCells(n, Tail(p))

\* the cells one step from c: no wall on the side of c that is left, and
\* the cell entered is not forbidden
Moves(g, w, h, fb, c) ==
    {Step(c, d) : d \in {dd \in DirSet :
                            /\ is_in_bounds(w, h, Step(c, dd))
                            /\ ~has_wall(g, c, dd)
                            /\ Step(c, dd) \notin fb}}

\* number of steps of a shortest walk from the cells of frontier to dst,
\* counted from k; -1 if there is none
RECURSIVE DistFrom(_, _, _, _, _, _, _, _)
DistFrom(g, w, h, fb, frontier, done, dst, k) ==
    IF dst \in frontier THEN k
    ELSE IF frontier = {} THEN -1
    ELSE LET all == done \cup frontier
             nxt == UNION {Moves(g, w, h, fb, c) : c \in frontier}
         IN  DistFrom(g, w, h, fb, nxt \ all, all, dst, k + 1)

Solved == pc \in {"solved", "written", "validated"}

\* C4: a non-empty path returned by solve() stays in bounds, crosses no
\* wall of the cell it leaves, ends at exit, and is as short as the shortest
\* walk from entry to exit over open walls that enters no forbidden cell.
C4_ShortestPath ==
    (pc = "solved" /\ path # <<>>) =>
        /\ WalkOK(grid, width, height, entry, path)
        /\ WalkEnd(entry, path) = exit
        /\ Len(path) = DistFrom(grid, width, height, forbidden,
                                {entry}, {}, exit, 0)

\* a path of some length through a maze that has a cycle
C4_Witness ==
    /\ pc = "solved"
    /\ ~perfect
    /\ Len(path) >= 4
    /\ Cardinality(OpenEdges(grid, width, height)) >= width * height

\* C5: when the pattern fits, after generate() every forbidden cell has
\* mask 0xF, and the path of solve(), walked from entry, passes through no
\* forbidden cell.
C5_ForbiddenClosed ==
    (can_fit_42(width, height) /\ Generated) =>
        /\ \A c \in forbidden : grid[c] = 15
        /\ (Solved /\ path # <<>>) =>
              ({entry} \cup WalkCells(entry, path)) \cap forbidden = {}

\* a solved maze with the pattern in it and a path that has to lead round it
C5_Witness ==
    /\ pc = "solved"
    /\ can_fit_42(width, height)
    /\ forbidden # {}
    /\ Len(path) >= MIN_WIDTH

\* C6: with perfect=true, for every configuration the Maze constructor
\* accepts, solve() returns a non-empty path.
C6_PerfectSolvable == (perfect /\ pc = "solved") => path # <<>>

\* the cells joined to src by walls open on both sides, entering no
\* forbidden cell
ReachBoth(g, w, h, fb, src) ==
    Component({e \in OpenEdges(g, w, h) : (e \ {src}) \cap fb = {}},
              {src}, {})

\* C7: solve() returns the empty path exactly when exit cannot be reached
\* from entry through open walls without entering a forbidden cell, and
\* solve() leaves the grid as it was.
C7_EmptyIffUnreachable ==
    /\ [](pc = "solved" =>
            (path = <<>> <=>
                exit \notin ReachBoth(grid, width, height, forbidden, entry)))
    /\ [][(pc \in {"generated", "solving"}) => (grid' = grid)]_vars

\* solve() returned "" for an exit that is out of reach
C7_Witness ==
    /\ pc = "solved"
    /\ path = <<>>
    /\ exit \notin ReachBoth(grid, width, height, forbidden, entry)

\* C8: the text write_output_file writes is accepted by the validator's
\* parsing rules, and reading it back gives the same wall masks, entry, exit
\* and path, for every grid, entry, exit and path, the empty path included.
C8_RoundTrip ==
    pc = "validated" =>
        /\ parsed.ok
        /\ parsed.grid = grid
        /\ parsed.entry = entry
        /\ parsed.exit = exit
        /\ parsed.path = path

\* C9: the set embed_42 returns after carving is the set get_42_cells
\* returned before carving, whatever the seed, perfect and the grid.
C9_PredictionIsStamped ==
    Generated => forbidden = get_42_cells(width, height)

\* the pattern was stamped into a carved grid in which it is not centred
\* on the cell grid's middle
C9_Witness ==
    /\ pc = "generated"
    /\ forbidden # {}
    /\ ~perfect
    /\ width = MIN_WIDTH + 1
    /\ \E c \in Cells(width, height) : grid[c] # 15

\* the 1-entries of the bitmap, as <<row, col>> counted from 0
PatternOnes ==
    {rc \in (0 .. 4) \X (0 .. 7) : PATTERN_42[rc[1] + 1][rc[2] + 1] = 1}

\* C10: get_42_cells is empty exactly when width < 10 or height < 7;
\* otherwise it has one coordinate per 1-entry of the bitmap, each the
\* centred origin ((width-8) div 2, (height-5) div 2) plus the entry's
\* offset, and each at least one cell away from every edge of the grid.
C10_Placement ==
    pc = "predicted" =>
        /\ forbidden = {} <=> (width < 10 \/ height < 7)
        /\ forbidden # {} =>
              LET ox == (width - 8) \div 2
                  oy == (height - 5) \div 2
              IN  /\ Cardinality(forbidden) = Cardinality(PatternOnes)
                  /\ \A c \in forbidden :
                        /\ <<c[2] - oy, c[1] - ox>> \in PatternOnes
                        /\ 1 <= c[1] /\ c[1] <= width - 2
                        /\ 1 <= c[2] /\ c[2] <= height - 2

\* a grid one cell wider and higher than the pattern needs
C10_Witness ==
    /\ pc = "predicted"
    /\ forbidden # {}
    /\ width = MIN_WIDTH + 1
    /\ height = MIN_HEIGHT + 1

\* C11: when the pattern fits, the stamping step sets the mask of every
\* coordinate it returns to 0xF and leaves every other cell's mask as it
\* was; when the pattern does not fit it changes no cell and returns the
\* empty set.
C11_StampingFrame ==
    [][(pc = "stamping") =>
          IF can_fit_42(width, height)
          THEN /\ forbidden' # {}
               /\ \A c \in Cells(width, height) :
                     grid'[c] = IF c \in forbidden' THEN 15 ELSE grid[c]
          ELSE /\ grid' = grid
               /\ forbidden' = {}]_vars

\* the stamp closed a carved cell: entry is a pattern cell, all its walls
\* are back, and a cell next to it still has its wall towards entry open
C11_Witness ==
    /\ pc = "generated"
    /\ entry \in forbidden
    /\ grid[entry] = 15
    /\ \E d \in DirSet :
          /\ is_in_bounds(width, height, Step(entry, d))
          /\ Step(entry, d) \notin forbidden
          /\ ~has_wall(grid, Step(entry, d), opposite(d))

\* C12: at every step of carving and when carving ends, no forbidden cell
\* is in the visited set and every forbidden cell has mask 15.
C12_CarverAvoidsForbidden ==
    pc = "carving" =>
        /\ forbidden \cap visited = {}
        /\ \A c \in forbidden : grid[c] = 15

\* pairs of 4-adjacent cells of the grid
GridEdges(w, h) ==
    {{a, Step(a, d)} : <<a, d>> \in
        {ad \in Cells(w, h) \X {"EAST", "SOUTH"} :
            is_in_bounds(w, h, Step(ad[1], ad[2]))}}

\* the cells that are not forbidden and can be reached from src by steps
\* between 4-adjacent cells that enter no forbidden cell
FreeReach(w, h, fb, src) ==
    Component({e \in GridEdges(w, h) : (e \ {src}) \cap fb = {}},
              {src}, {}) \ fb

\* C13: while the carver runs, the cells visited so far are among the
\* non-forbidden cells reachable from entry without entering a forbidden
\* cell, and the removed walls are a tree over them (connected, acyclic,
\* |visited| - 1 removed wall pairs); when carving ends visited is that whole
\* set; and a cell is pushed only when it was not visited, so exactly once.
C13_CarverTree ==
    /\ [](pc = "carving" =>
            LET edges == OpenEdges(grid, width, height)
                reach == FreeReach(width, height, forbidden, entry)
            IN  /\ visited \subseteq reach
                /\ (stack = <<>>) => (visited = reach)
                /\ Component(edges, {entry}, {}) = visited
                /\ Acyclic(edges)
                /\ Cardinality(edges) = Cardinality(visited) - 1)
    /\ [][(pc = "carving" /\ Len(stack') > Len(stack)) =>
             /\ stack'[Len(stack')] \notin visited
             /\ visited' = visited \cup {stack'[Len(stack')]}]_vars

\* C14: a later run of generate() with the same configuration and the same
\* seed ends with the grid of the first run, cell for cell, and solve()
\* returns the first run's path, whatever state the random generator was
\* left in between the runs.
C14_SeedDeterminism ==
    (seed # NoSeed /\ first # <<>>) =>
        /\ Generated => grid = first.grid
        /\ Solved => path = first.path

\* a second run of an imperfect maze round the pattern was solved
C14_Witness ==
    /\ first # <<>>
    /\ pc = "solved"
    /\ ~perfect
    /\ forbidden # {}
    /\ Len(path) >= MIN_WIDTH
    /\ first.path = path

\* C15: constructing a Maze raises an error and leaves no grid exactly when
\* width <= 0, height <= 0, entry or exit lies outside the grid, or entry
\* equals exit; otherwise there are height rows of width cells, every cell
\* is 15 and the visited set is empty.
C15_Construction ==
    LET bad == \/ width <= 0
               \/ height <= 0
               \/ entry[1] < 0 \/ entry[1] >= width
               \/ entry[2] < 0 \/ entry[2] >= height
               \/ exit[1] < 0 \/ exit[1] >= width
               \/ exit[2] < 0 \/ exit[2] >= height
               \/ entry = exit
    IN  /\ (pc = "failed") => (bad /\ grid = <<>>)
        /\ (pc = "failed" /\ call.op = "generate") =>
              (call.raised = "ValueError")
        /\ (pc # "new") => (pc = "failed" <=> bad)
        /\ (pc = "constructed") =>
              /\ DOMAIN grid = (0 .. width - 1) \X (0 .. height - 1)
              /\ Cardinality(DOMAIN grid) = width * height
              /\ \A c \in DOMAIN grid : grid[c] = 15
              /\ visited = {}
              /\ call.raised = ""

\* the last test of the constructor fails: both cells are in the grid and
\* they are the same cell
C15_Witness ==
    /\ pc = "failed"
    /\ width > 1
    /\ height > 1
    /\ entry = exit
    /\ entry = <<1, 1>>

\* a and b are one step apart along one axis
FourAdjacent(a, b) ==
    \/ a[2] = b[2] /\ (a[1] - b[1] = 1 \/ b[1] - a[1] = 1)
    \/ a[1] = b[1] /\ (a[2] - b[2] = 1 \/ b[2] - a[2] = 1)

\* the side of a that faces the 4-adjacent cell b
Facing(a, b) ==
    IF b[2] < a[2] THEN "NORTH"
    ELSE IF b[1] > a[1] THEN "EAST"
    ELSE IF b[2] > a[2] THEN "SOUTH"
    ELSE "WEST"

\* mask m with the bit of side d taken out, every other bit as it was
Without(m, d) ==
    CHOOSE n \in 0 .. 15 :
        \A e \in DirSet :
            HasBit(n, value(e)) <=> (e # d /\ HasBit(m, value(e)))

\* C16: remove_wall on two cells of the grid that are not 4-adjacent (the
\* same cell, a diagonal pair, two cells further apart) raises the
\* not-adjacent error and leaves every mask as it was; on 4-adjacent cells
\* it clears the bit of a that faces b and the bit of b that faces a and
\* changes no other bit of any cell.
C16_RemoveWall ==
    [][(call'.op = "remove_wall") =>
          LET a == call'.a
              b == call'.b
          IN  IF FourAdjacent(a, b)
              THEN /\ call'.raised = ""
                   /\ grid'[a] = Without(grid[a], Facing(a, b))
                   /\ grid'[b] = Without(grid[b], Facing(b, a))
                   /\ \A c \in Cells(width, height) \ {a, b} :
                         grid'[c] = grid[c]
              ELSE /\ call'.raised = "ValueError"
                   /\ grid' = grid]_vars

\* remove_wall was refused for a diagonal pair
C16_Witness ==
    /\ pc = "walls"
    /\ call.op = "remove_wall"
    /\ call.a = <<0, 0>>
    /\ call.b = <<1, 1>>
    /\ call.raised = "ValueError"
    /\ grid = call.before
    /\ \E c \in Cells(width, height) : grid[c] = 0

\* g2 is g with the wall between two 4-adjacent cells taken away on both
\* sides, and that wall was there on the first cell's side
OneWallOpened(g, g2, w, h) ==
    \E a \in Cells(w, h) : \E b \in Cells(w, h) :
        /\ FourAdjacent(a, b)
        /\ has_wall(g, a, Facing(a, b))
        /\ g2 = [g EXCEPT ![a] = Without(g[a], Facing(a, b)),
                          ![b] = Without(g[b], Facing(b, a))]

\* C17: for every grid and every 4-adjacent pair whose shared wall is there
\* on both sides, remove_wall followed by add_wall_back gives the grid back
\* as it was; and an attempt of the loop adder either leaves the grid as it
\* was before the attempt or opens exactly one wall without completing an
\* open 3x3 block, so a rejected attempt changes nothing.
C17_RestoreInverse ==
    /\ [][(/\ call.op = "remove_wall"
           /\ call.raised = ""
           /\ has_wall(call.before, call.a, Facing(call.a, call.b))
           /\ has_wall(call.before, call.b, Facing(call.b, call.a))
           /\ call'.op = "add_wall_back"
           /\ call'.a = call.a
           /\ call'.b = call.b) => (grid' = call.before)]_vars
    /\ [][(pc = "looping" /\ attempt' = attempt + 1) =>
             \/ grid' = grid
             \/ /\ OneWallOpened(grid, grid', width, height)
                /\ \A k \in Blocks(width, height) :
                      InternalWalls(grid', k[1], k[2]) # {}]_vars

\* add_wall_back has put back a wall that was open on both sides, in a grid
\* that has open walls elsewhere
C17_Witness ==
    /\ pc = "walls"
    /\ call.op = "add_wall_back"
    /\ call.raised = ""
    /\ ~has_wall(call.before, call.a, Facing(call.a, call.b))
    /\ ~has_wall(call.before, call.b, Facing(call.b, call.a))
    /\ has_wall(grid, call.a, Facing(call.a, call.b))
    /\ has_wall(grid, call.b, Facing(call.b, call.a))
    /\ \E c \in Cells(width, height) \ {call.a, call.b} : grid[c] = 0

\* place of a direction in the enumeration North, East, South, West
Rank(d) == CASE d = "NORTH" -> 1 [] d = "EAST" -> 2
             [] d = "SOUTH" -> 3 [] d = "WEST" -> 4

\* the cell one step from c: north is up (y - 1), east is right (x + 1)
Target(c, d) == CASE d = "NORTH" -> <<c[1], c[2] - 1>>
                  [] d = "EAST" -> <<c[1] + 1, c[2]>>
                  [] d = "SOUTH" -> <<c[1], c[2] + 1>>
                  [] d = "WEST" -> <<c[1] - 1, c[2]>>

\* C18: for a cell of the grid, _get_neighbours returns exactly the pairs
\* (cell + delta(d), d) of the directions d whose target is in the grid, each
\* once, no coordinate outside the grid, in the order North, East, South,
\* West, and leaves the grid as it was.
C18_Neighbours ==
    (call.op = "get_neighbours") =>
        LET c == call.a
            r == call.returned
        IN  /\ {r[i] : i \in 1 .. Len(r)} =
                  {<<Target(c, d), d>> : d \in
                      {dd \in DirSet : Target(c, dd) \in Cells(width, height)}}
            /\ \A i \in 1 .. Len(r) : r[i][1] \in Cells(width, height)
            /\ \A i \in 1 .. Len(r) : \A j \in 1 .. Len(r) :
                  (i < j) => (Rank(r[i][2]) < Rank(r[j][2]))
            /\ grid = call.before

\* the neighbours of the middle cell of a 3x3 grid were asked for
C18_Witness ==
    /\ call.op = "get_neighbours"
    /\ width = 3
    /\ height = 3
    /\ call.a = <<1, 1>>
    /\ Len(call.returned) = 4

\* the stage that may follow each stage of one generate() run
StageOrder(p) ==
    {<<"new", "constructed">>, <<"new", "failed">>,
     <<"constructed", "predicted">>, <<"predicted", "carving">>,
     <<"looping", "stamping">>, <<"stamping", "generated">>}
    \cup (IF p THEN {<<"carving", "stamping">>} ELSE {<<"carving", "looping">>})

InGenerate ==
    {"new", "constructed", "predicted", "carving", "looping", "stamping"}

\* C19: a generate() run goes through construction, pattern prediction,
\* carving, loop adding (exactly when perfect is false) and stamping in this
\* order; walls change in no other stage and none is removed once the
\* pattern is stamped; and the forbidden set that forbidden_cells exposes and
\* solve() searches with is the set the stamping step returned.
C19_PipelineOrder ==
    /\ [][(pc \in InGenerate /\ pc' # pc) =>
             (<<pc, pc'>> \in StageOrder(perfect))]_vars
    /\ [][(grid' # grid) =>
             (pc \in {"new", "carving", "looping", "stamping"})]_vars
    /\ [][(pc = "predicted") => (forbidden = get_42_cells(width, height))]_vars
    /\ [][(pc = "stamping") =>
             (forbidden' = embed_42(grid, width, height).stamped)]_vars
    /\ [][Generated =>
             /\ forbidden' = forbidden
             /\ \A c \in Cells(width, height) : \A d \in DirSet :
                   has_wall(grid, c, d) => has_wall(grid', c, d)]_vars
    /\ [](pc = "solving" => seen \cap forbidden \subseteq {entry})

\* forbidden_cells was read after solve() on an imperfect maze with the
\* pattern in it, all attempts of the loop adder used up
C19_Witness ==
    /\ pc = "solved"
    /\ ~perfect
    /\ attempt = MaxAttempts
    /\ forbidden # {}
    /\ call.op = "forbidden_cells"
    /\ call.raised = ""

\* C20: reading grid or forbidden_cells or calling solve() raises
\* RuntimeError as long as no generate() call has succeeded, also after a
\* generate() that failed in the constructor; after a successful generate()
\* none of the three raises.
C20_CallProtocol ==
    (call.op \in {"grid", "forbidden_cells", "solve"}) =>
        /\ (pc \in {"new", "failed"}) => (call.raised = "RuntimeError")
        /\ (pc \notin {"new", "failed"}) => (call.raised = "")
        /\ (call.raised = "RuntimeError") <=> (grid = <<>>)

\* solve() was called after generate() had failed on entry = exit
C20_Witness ==
    /\ pc = "failed"
    /\ width > 0
    /\ height > 0
    /\ entry = exit
    /\ call.op = "solve"
    /\ call.raised = "RuntimeError"

\* ----------------------------- the loop adder on grids that are nearly open
AdderSizes == {<<4, 3>>, <<3, 4>>}

\* the generator states the loop adder is entered with: unseeded, or a
\* seeded one
MaxAdderSeed == 3

\* forbidden sets handed to _add_cycles_safely: none, an inner cell, a corner
AdderForbidden(w, h) == {{}, {<<1, 1>>}, {<<w - 1, h - 1>>}}

\* the mask of c when the outer boundary and the walls between the pairs of
\* cells in walls are present and every other wall is open
MaskWith(w, h, walls, c) ==
    LET Bit(d) == IF \/ ~is_in_bounds(w, h, Step(c, d))
                     \/ {c, Step(c, d)} \in walls
                  THEN value(d) ELSE 0
    IN  Bit("NORTH") + Bit("EAST") + Bit("SOUTH") + Bit("WEST")

\* grids the loop adder can have reached: forbidden cells fully walled, one
\* or two more walls left, the other cells joined, no 3x3 block open
AdderGrids(w, h, fb) ==
    LET fixed == {e \in GridEdges(w, h) : e \cap fb # {}}
        free == GridEdges(w, h) \ fixed
        all == {[c \in Cells(w, h) |->
                    MaskWith(w, h, fixed \cup {p[1], p[2]}, c)] :
                        p \in free \X free}
    IN  {g \in all :
            /\ Component(OpenEdges(g, w, h), {<<0, 0>>}, {}) = Cells(w, h) \ fb
            /\ \A b \in Blocks(w, h) : ~has_3x3_open(g, b[1], b[2])}

\* _add_cycles_safely is entered with such a grid
InitAdder ==
    /\ \E sz \in AdderSizes : width = sz[1] /\ height = sz[2]
    /\ entry = <<0, 0>>
    /\ exit = <<width - 1, 0>>
    /\ perfect = FALSE
    /\ seed \in {NoSeed} \cup (0 .. MaxAdderSeed)
    /\ pc = "looping"
    /\ forbidden \in AdderForbidden(width, height)
    /\ grid \in AdderGrids(width, height, forbidden)
    /\ visited = Cells(width, height) \ forbidden
    /\ stack = <<>>
    /\ attempt = 0
    /\ rng = Reseed([seeded |-> FALSE, s |-> 0], seed)
    /\ queue = <<>>
    /\ seen = {}
    /\ path = <<>>
    /\ text = <<>>
    /\ parsed = NoParse
    /\ call = [op |-> "generate", raised |-> ""]
    /\ first = <<>>
    /\ ui = NoUI

NextAdder == AddCycle \/ LoopsDone \/ Stamp

SpecAdder == InitAdder /\ [][NextAdder]_vars

\* every wall inside the 3x3 block with top-left cell b is open on both sides
BlockOpen(g, w, h, b) ==
    LET inside == (b[1] .. b[1] + 2) \X (b[2] .. b[2] + 2)
    IN  \A a \in inside : \A d \in {"EAST", "SOUTH"} :
            (Step(a, d) \in inside) =>
                /\ ~has_wall(g, a, d)
                /\ ~has_wall(g, Step(a, d), opposite(d))

\* the walls an attempt of the loop adder may take away: <<cell, neighbour>>
Removable(g, w, h, fb) ==
    {cn \in (Cells(w, h) \ fb) \X (Cells(w, h) \ fb) :
        /\ FourAdjacent(cn[1], cn[2])
        /\ has_wall(g, cn[1], Facing(cn[1], cn[2]))}

\* C21: when no 3x3 block is fully open before the loop adder takes away the
\* wall between (x, y) and a neighbour, _creates_3x3_nearby(x, y) is true
\* after the removal exactly when some 3x3 block anywhere in the grid is
\* fully open.
C21_LocalCheckComplete ==
    (pc = "looping"
        /\ \A b \in Blocks(width, height) :
              ~BlockOpen(grid, width, height, b)) =>
        \A cn \in Removable(grid, width, height, forbidden) :
            LET g1 == remove_wall(grid, cn[1], cn[2])
            IN  creates_3x3_nearby(g1, width, height, cn[1][1], cn[1][2])
                    <=> \E b \in Blocks(width, height) :
                           BlockOpen(g1, width, height, b)

\* after an attempt, a removal at (x, y) would open the block whose origin
\* lies two cells to the left of x, and only that block
C21_Witness ==
    /\ pc = "looping"
    /\ attempt >= 1
    /\ \E cn \in Removable(grid, width, height, forbidden) :
          LET g1 == remove_wall(grid, cn[1], cn[2])
          IN  /\ cn[1][1] >= 2
              /\ BlockOpen(g1, width, height, <<cn[1][1] - 2, 0>>)
              /\ \A b \in Blocks(width, height) :
                    (b # <<cn[1][1] - 2, 0>>) =>
                        ~BlockOpen(g1, width, height, b)

\* C22: an attempt of the loop adder leaves the mask of every forbidden cell
\* as it was, whichever cell is picked and in whichever order its
\* neighbours are tried, and when it changes the grid it clears the two
\* facing bits of one wall between two cells that are both not forbidden.
C22_AdderAvoidsForbidden ==
    [][(pc = "looping" /\ pc' = "looping") =>
          /\ \A c \in forbidden : grid'[c] = grid[c]
          /\ (grid' # grid) =>
                \E a \in Cells(width, height) \ forbidden :
                    \E b \in Cells(width, height) \ forbidden :
                        /\ FourAdjacent(a, b)
                        /\ grid' = [grid EXCEPT
                               ![a] = Without(grid[a], Facing(a, b)),
                               ![b] = Without(grid[b], Facing(b, a))]]_vars

\* after an attempt a cell beside a forbidden cell has every wall towards
\* its other neighbours open, so that picking it leaves only the forbidden
\* neighbour behind a wall, and the forbidden cell is still closed
C22_Witness ==
    /\ pc = "looping"
    /\ attempt >= 1
    /\ \E f \in forbidden : \E n \in Cells(width, height) \ forbidden :
          /\ FourAdjacent(f, n)
          /\ grid[f] = 15
          /\ has_wall(grid, n, Facing(n, f))
          /\ \A m \in Cells(width, height) \ forbidden :
                FourAdjacent(n, m) => ~has_wall(grid, n, Facing(n, m))

\* the positions in nbs of the neighbours of c that are not forbidden and
\* still behind a wall
Viable(g, fb, c, nbs) ==
    {i \in 1 .. Len(nbs) : nbs[i][1] \notin fb /\ has_wall(g, c, nbs[i][2])}

\* grid g with the wall between a and b taken away on both sides
Opened(g, a, b) ==
    [g EXCEPT ![a] = Without(g[a], Facing(a, b)),
              ![b] = Without(g[b], Facing(b, a))]

\* what one attempt that picks c and tries its neighbours in the order
\* nbs leaves: only the first viable neighbour counts
AfterAttempt(g, w, h, fb, c, nbs) ==
    IF c \in fb \/ Viable(g, fb, c, nbs) = {} THEN g
    ELSE LET i == CHOOSE k \in Viable(g, fb, c, nbs) :
                      \A m \in Viable(g, fb, c, nbs) : k <= m
             g1 == Opened(g, c, nbs[i][1])
         IN  IF \E b \in Blocks(w, h) : BlockOpen(g1, w, h, b)
             THEN g ELSE g1

\* C23: the loop adder makes one attempt after another until the budget is
\* used up and then stops without a further change; an attempt opens at
\* most one wall; with a seeded generator the attempt changes the grid
\* only at the first neighbour, in the shuffled order, that is not
\* forbidden and still walled, and when that removal is taken back no other
\* neighbour is tried.
C23_FirstFitBudget ==
    [][(pc = "looping") =>
          /\ attempt <= MaxAttempts
          /\ (attempt < MaxAttempts) =>
                /\ pc' = "looping"
                /\ attempt' = attempt + 1
                /\ Cardinality(OpenEdges(grid', width, height))
                      <= Cardinality(OpenEdges(grid, width, height)) + 1
          /\ (attempt = MaxAttempts) => (pc' = "stamping" /\ grid' = grid)
          /\ (attempt < MaxAttempts /\ rng.seeded) =>
                \A dx \in Draws(rng, width) : \A dy \in Draws(dx[2], height) :
                    \A sh \in Shuffles(dy[2], get_neighbours(width, height,
                                                 <<dx[1], dy[1]>>)) :
                        grid' = AfterAttempt(grid, width, height, forbidden,
                                             <<dx[1], dy[1]>>, sh[1])]_vars

\* after an attempt, the next one picks a cell whose first viable neighbour
\* is refused while a later viable neighbour could have been opened
C23_Witness ==
    /\ pc = "looping"
    /\ attempt >= 1
    /\ attempt < MaxAttempts
    /\ rng.seeded
    /\ \E dx \in Draws(rng, width) : \E dy \in Draws(dx[2], height) :
          \E sh \in Shuffles(dy[2], get_neighbours(width, height,
                                        <<dx[1], dy[1]>>)) :
              LET c == <<dx[1], dy[1]>>
                  v == Viable(grid, forbidden, c, sh[1])
              IN  /\ c \notin forbidden
                  /\ Cardinality(v) >= 2
                  /\ AfterAttempt(grid, width, height, forbidden, c, sh[1])
                        = grid
                  /\ \E k \in v :
                        \A b \in Blocks(width, height) :
                            ~BlockOpen(Opened(grid, c, sh[1][k][1]),
                                       width, height, b)

Distinct(s) == \A i \in 1 .. Len(s) : \A j \in 1 .. Len(s) :
                  (i # j) => (s[i] # s[j])

\* the cells waiting in the queue of the solver, in order
QueueCells(q) == [i \in 1 .. Len(q) |-> q[i][1]]

\* a cell is on the stack at most once and was marked when it was pushed;
\* a cell is in the queue at most once and was marked when it was enqueued
NoCellTwice ==
    /\ (pc = "carving") =>
          /\ Distinct(stack)
          /\ \A i \in 1 .. Len(stack) : stack[i] \in visited
    /\ (pc = "solving") =>
          /\ Distinct(QueueCells(queue))
          /\ \A i \in 1 .. Len(queue) : queue[i][1] \in seen

\* an iteration of the carver pops the top of the stack or pushes one cell
\* that was never pushed before
CarverStep ==
    (pc = "carving" /\ pc' = "carving") =>
        \/ /\ stack # <<>>
           /\ stack' = SubSeq(stack, 1, Len(stack) - 1)
           /\ visited' = visited
        \/ \E c \in Cells(width, height) \ visited :
              /\ stack' = Append(stack, c)
              /\ visited' = visited \cup {c}

\* an iteration of the solver takes the head of the queue and enqueues
\* only cells that were never enqueued before
SolverStep ==
    (pc = "solving" /\ pc' = "solving") =>
        /\ queue # <<>>
        /\ Len(queue') >= Len(queue) - 1
        /\ \A i \in 1 .. Len(queue) - 1 : queue'[i] = queue[i + 1]
        /\ \A i \in Len(queue) .. Len(queue') : queue'[i][1] \notin seen
        /\ seen' = seen \cup {queue'[i][1] : i \in Len(queue) .. Len(queue')}

\* C24: whatever is drawn, the loop of the carver comes to an end with an
\* empty stack, every cell is pushed at most once and, the stack being
\* empty at the end, popped once; the loop of the solver comes to an end
\* and every cell is enqueued at most once.
C24_Termination ==
    /\ []NoCellTwice
    /\ [][CarverStep /\ SolverStep]_vars
    /\ [](pc \in {"looping", "stamping"} => stack = <<>>)
    /\ (pc \in {"carving", "solving"}) ~> (pc \notin {"carving", "solving"})

\* both loops have ended on a grid of at least six cells that were all
\* pushed and all enqueued, with draws that are not determined
C24_Witness ==
    /\ pc = "solved"
    /\ ~rng.seeded
    /\ stack = <<>>
    /\ Cardinality(visited) >= 6
    /\ Cardinality(seen) >= 6

\* C25: from the call of solve() to its return no cell mask, neither entry
\* nor exit and not the forbidden set changes, and every further call of
\* solve() on the same maze returns the path of the first call, whatever
\* the seed was and whatever state the random generator is in.
C25_SolveReadOnly ==
    /\ [][(pc \in {"generated", "solved", "solving"}
             /\ pc' \in {"solving", "solved"}) =>
            (grid' = grid /\ config' = config /\ forbidden' = forbidden)]_vars
    /\ [](pc = "solved" /\ first # <<>> =>
            (path = first.path /\ grid = first.grid))

\* a later call has returned, with another generator state than the maze
\* was made with, a path of several steps
C25_Witness ==
    /\ pc = "solved"
    /\ first # <<>>
    /\ Len(path) >= 3
    /\ seed # NoSeed
    /\ ~rng.seeded

\* the open walls between two cells that are both not forbidden
FreeOpenEdges(g, w, h, fb) == {e \in OpenEdges(g, w, h) : e \cap fb = {}}

\* two non-forbidden cells joined in g are joined in g2: every open wall
\* of g that is not open in g2 lies between two cells that g2 joins by
\* another way
StillJoined(g, g2, w, h, fb) ==
    \A e \in FreeOpenEdges(g, w, h, fb) \ FreeOpenEdges(g2, w, h, fb) :
        \E a \in e :
            e \subseteq Component(FreeOpenEdges(g2, w, h, fb), {a}, {})

\* C26: with perfect=false and neither entry nor exit forbidden, an attempt
\* of the loop adder and the stamping of the pattern leave every two
\* non-forbidden cells joined that were joined before, and solve() then
\* returns a non-empty path.
C26_NeverDisconnects ==
    /\ [][(~perfect /\ pc \in {"looping", "stamping"}
             /\ entry \notin forbidden' /\ exit \notin forbidden') =>
            StillJoined(grid, grid', width, height, forbidden')]_vars
    /\ [](~perfect /\ pc = "solved"
             /\ entry \notin forbidden /\ exit \notin forbidden =>
            path # <<>>)

\* a path was found in a maze with the pattern stamped and a loop added
C26_Witness ==
    /\ pc = "solved"
    /\ ~perfect
    /\ forbidden # {}
    /\ entry \notin forbidden
    /\ exit \notin forbidden
    /\ path # <<>>
    /\ ~Acyclic(OpenEdges(grid, width, height))

\* C27: in every grid the pattern fits in, from every cell that is not
\* forbidden every other such cell can be reached by steps between
\* 4-adjacent cells that enter no forbidden cell; so, the entry not being
\* forbidden, the carver has visited every non-forbidden cell when it ends
\* and none of them is left with all four walls.
C27_NoEnclosedCell ==
    (pc \in {"looping", "stamping", "generated"}
        /\ can_fit_42(width, height) /\ entry \notin forbidden) =>
        LET free == Cells(width, height) \ forbidden
        IN  /\ \A e \in free : FreeReach(width, height, forbidden, e) = free
            /\ visited = free
            /\ \A c \in free : grid[c] # 15

\* the pattern is stamped in a grid larger than the smallest one, and the
\* free cell in the bend of the "2" has an open wall
C27_Witness ==
    /\ pc = "generated"
    /\ width > MIN_WIDTH
    /\ height > MIN_HEIGHT
    /\ forbidden = get_42_cells(width, height)
    /\ forbidden # {}
    /\ LET ox == (width - PATTERN_W) \div 2
           oy == (height - PATTERN_H) \div 2
       IN  /\ <<ox + 7, oy + 3>> \notin forbidden
           /\ grid[<<ox + 7, oy + 3>>] # 15

\* C28: while and after generate() builds the maze, the grid has exactly
\* the cells of the width x height rectangle and every side of a cell that
\* faces outside the grid has its wall; the cells the carver keeps on its
\* stack, the cells the loop adder draws, the cells the solver keeps in its
\* queue and every neighbour handed to remove_wall, add_wall_back and
\* has_wall lie in the grid.
C28_BoundaryClosed ==
    (grid # <<>>) =>
        /\ DOMAIN grid = Cells(width, height)
        /\ \A c \in Cells(width, height) : \A d \in DirSet :
              ~is_in_bounds(width, height, Step(c, d)) => has_wall(grid, c, d)
        /\ \A c \in Cells(width, height) :
              \A i \in 1 .. Len(get_neighbours(width, height, c)) :
                  get_neighbours(width, height, c)[i][1]
                      \in Cells(width, height)
        /\ (pc = "carving") =>
              \A i \in 1 .. Len(stack) : stack[i] \in Cells(width, height)
        /\ (pc = "looping") =>
              \A dx \in Draws(rng, width) : \A dy \in Draws(dx[2], height) :
                  <<dx[1], dy[1]>> \in Cells(width, height)
        /\ (pc = "solving") =>
              \A i \in 1 .. Len(queue) : queue[i][1] \in Cells(width, height)

\* generate() has returned a maze whose top-left cell lost both inner
\* walls and kept the two outer ones
C28_Witness ==
    /\ pc = "generated"
    /\ width >= 2
    /\ height >= 2
    /\ grid[<<0, 0>>] = 9

\* ------------------------------------------------ the interactive loop
\* len(WALL_PALETTES)
NumPalettes == 8

\* times option 1 is chosen in one session
MaxRegens == 1

\* main() calls run_ui with the keyword forbidden_cells, which run_ui
\* does not take
main_run_ui ==
    /\ pc = "written"
    /\ ui.mode = "off"
    /\ call' = [op |-> "run_ui", raised |-> "TypeError"]
    /\ ui' = [ui EXCEPT !.mode = "failed"]
    /\ UNCHANGED <<config, pc, grid, visited, stack, forbidden, attempt, rng,
                   queue, seen, path, text, parsed, first>>

\* run_ui is entered with the arguments of its signature, taken from
\* build_and_write(seed), and the callback regenerate of main()
run_ui ==
    /\ pc = "written"
    /\ ui.mode = "off"
    /\ ui' = [mode |-> "menu", grid |-> grid, entry |-> entry,
              exit_pos |-> exit, path_str |-> path, show_path |-> FALSE,
              wall_color_idx |-> 0, regenerated |-> 0, error |-> ""]
    /\ UNCHANGED <<config, pc, grid, visited, stack, forbidden, attempt, rng,
                   queue, seen, path, text, parsed, call, first>>

\* choice '2'
ShowHidePath ==
    /\ ui.mode = "menu"
    /\ ui' = [ui EXCEPT !.show_path = ~ui.show_path]
    /\ UNCHANGED <<config, pc, grid, visited, stack, forbidden, attempt, rng,
                   queue, seen, path, text, parsed, call, first>>

\* choice '3'
RotateColours ==
    /\ ui.mode = "menu"
    /\ ui' = [ui EXCEPT !.wall_color_idx = (ui.wall_color_idx + 1) % NumPalettes]
    /\ UNCHANGED <<config, pc, grid, visited, stack, forbidden, attempt, rng,
                   queue, seen, path, text, parsed, call, first>>

\* choice '4', EOF or an interrupt
Quit ==
    /\ ui.mode = "menu"
    /\ ui' = [ui EXCEPT !.mode = "quit"]
    /\ UNCHANGED <<config, pc, grid, visited, stack, forbidden, attempt, rng,
                   queue, seen, path, text, parsed, call, first>>

\* choice '1': regenerate_fn() is called, which is build_and_write(None): a
\* new MazeGenerator without a seed; the module-level random generator and
\* the output file are as they were left
RegenerateCall ==
    /\ ui.mode = "menu"
    /\ ui.regenerated < MaxRegens
    /\ pc = "written"
    /\ ui' = [ui EXCEPT !.mode = "regenerating",
                        !.regenerated = ui.regenerated + 1]
    /\ seed' = NoSeed
    /\ pc' = "new"
    /\ grid' = <<>>
    /\ visited' = {}
    /\ stack' = <<>>
    /\ forbidden' = {}
    /\ attempt' = 0
    /\ queue' = <<>>
    /\ seen' = {}
    /\ path' = <<>>
    /\ call' = NoCall
    /\ UNCHANGED <<width, height, entry, exit, perfect, rng, text, parsed,
                   first>>

\* grid, entry, exit_pos, path_str = regenerate_fn(): the callback returns
\* five values, the assignment raises ValueError, the except branch prints
\* the error and the loop goes on with what it had
RegenerateReturn ==
    /\ ui.mode = "regenerating"
    /\ pc = "written"
    /\ ui' = [ui EXCEPT !.mode = "menu", !.error = "ValueError"]
    /\ UNCHANGED <<config, pc, grid, visited, stack, forbidden, attempt, rng,
                   queue, seen, path, text, parsed, call, first>>

UISizes == {<<2, 2>>} \cup FitSizes

\* main() has parsed a configuration the constructor accepts
InitUI ==
    /\ \E sz \in UISizes : width = sz[1] /\ height = sz[2]
    /\ entry = <<0, 0>>
    /\ exit \in {<<1, 1>>, <<width - 1, height - 1>>}
    /\ perfect \in BOOLEAN
    /\ seed \in SeedsFor(width, height)
    /\ Fresh

NextUI ==
    \/ generate
    \/ SolveStart \/ BfsStep \/ BfsFail
    \/ write_output_file
    \/ main_run_ui \/ run_ui
    \/ ShowHidePath \/ RotateColours \/ Quit
    \/ RegenerateCall \/ RegenerateReturn

SpecUI == InitUI /\ [][NextUI]_vars

\* C29: when option 1 was chosen and the callback of main() has generated
\* and written a new maze, the loop goes on with the grid, entry, exit and
\* path of that maze and with the path hidden; and whenever the menu is
\* shown the output file holds the maze that is displayed.
C29_RegenerationShown ==
    /\ [][(ui.mode = "regenerating" /\ ui'.mode = "menu") =>
            /\ ui'.grid = grid
            /\ ui'.entry = entry
            /\ ui'.exit_pos = exit
            /\ ui'.path_str = path
            /\ ~ui'.show_path]_vars
    /\ [](ui.mode = "menu" =>
            text = OutputText(ui.grid, width, height, ui.entry, ui.exit_pos,
                              ui.path_str))

\* ------------------------------------------------- Rose/walls.py remove_wall
\* direction = delta_to_direction.get((dx, dy)) is None for cells that are
\* not neighbours; the test that follows is on the class Direction, which is
\* never None, so nothing is raised there and direction.value raises
\* AttributeError before a mask is written; for neighbours both masks are
\* cleared
rose_remove_wall(g, a, b) ==
    IF DirsBetween(a, b) = {}
    THEN [grid |-> g, raised |-> "AttributeError"]
    ELSE LET d == CHOOSE dd \in DirsBetween(a, b) : TRUE
             g1 == [g EXCEPT ![a] = ClearBit(@, value(d))]
         IN  [grid |-> [g1 EXCEPT ![b] = ClearBit(@, value(opposite(d)))],
              raised |-> ""]

\* remove_wall(maze, coord_a, coord_b) of Rose/walls.py
RoseRemoveWallCall ==
    /\ pc = "walls"
    /\ width * height <= MaxWallCells
    /\ \E a \in Cells(width, height) : \E b \in Cells(width, height) :
          LET r == rose_remove_wall(grid, a, b)
          IN  /\ grid' = r.grid
              /\ call' = [op |-> "rose_remove_wall", a |-> a, b |-> b,
                          before |-> grid, raised |-> r.raised]
    /\ UNCHANGED <<config, ui, first, pc, visited, stack, forbidden, attempt,
                   rng, queue, seen, path, text, parsed>>

SpecRose == InitWalls /\ [][RoseRemoveWallCall]_vars

\* C30: remove_wall of Rose/walls.py on two cells that are not direct
\* neighbours raises ValueError and leaves every mask as it was; on direct
\* neighbours it raises nothing and clears the bit of coord_a that faces
\* coord_b and the bit of coord_b that faces coord_a, and no other bit.
C30_RoseRemoveWall ==
    [][(call'.op = "rose_remove_wall") =>
          LET a == call'.a
              b == call'.b
          IN  IF FourAdjacent(a, b)
              THEN /\ call'.raised = ""
                   /\ grid' = Opened(grid, a, b)
              ELSE /\ call'.raised = "ValueError"
                   /\ grid' = grid]_vars

====
